---- MODULE Spec2Model ----
(***************************************************************************)
(* State-machine model of the three client-side controllers of the        *)
(* repository:                                                             *)
(*   - src/js/dark-mode-toggle.js   (theme script, runs on every page)     *)
(*   - src/unnamed/part_001         (RSA interactive tool controller)      *)
(*   - src/unnamed/part_000         (hash function visualizer controller)  *)
(* Strings typed by the user are sequences of character codes; optional    *)
(* values (null in the JavaScript) are sequences of length 0 or 1.         *)
(***************************************************************************)
EXTENDS Integers, Sequences, FiniteSets, TLC

VARIABLES
    \* ---- browser state shared by every page
    page,              \* the page the document shows: "rsa" | "hash"
    localStorage,      \* function: key -> stored string
    sysDark,           \* matchMedia('(prefers-color-scheme: dark)').matches
    \* ---- dark-mode-toggle.js
    themePc,           \* "unloaded" | "waiting" (listener set, init pending) | "ready"
    dataTheme,         \* documentElement data-theme attribute (optional)
    toggleBtn,         \* the #theme-toggle element, when the page has one
    themeHist,         \* history: the last operations with their pre-states
    lastToggled,       \* history: theme applied by the latest toggleTheme
    \* ---- RSA tool controller (part_001)
    currentKeys,       \* let currentKeys = null
    lastCiphertext,    \* let lastCiphertext = null
    genPending,        \* key size of the generateKeyPair call being awaited
    markupDisabled,    \* whether the page's markup disables the two workflow buttons
    generateBtn,       \* #generate-keys-btn: disabled flag and label
    keyGenProgress,    \* #key-gen-progress content ("hidden" when not shown)
    encryptBtnDisabled,
    decryptBtnDisabled,
    ciphertextInput,   \* #ciphertext-input value
    keyGenResults,     \* #key-gen-results content
    encryptionResults, \* #encryption-results content
    decryptionResults, \* #decryption-results content
    rsaLast,           \* history: the last handler step, its error and RSACore call
    \* ---- hash visualizer controller (part_000)
    currentHashes,     \* let currentHashes = {}
    lastInput,         \* let lastInput = ''
    hashResults,       \* #hash-results content
    hashLoading,       \* whether #hash-results shows the loading indicator
    hashInv,           \* handleComputeHash invocations awaiting a hash, oldest first
    hashLast,          \* history: the last handler step, its error and HashCore call
    avalancheResults,  \* #avalanche-results content
    avalancheLoading,  \* whether #avalanche-results shows the loading indicator
    avInv,             \* handleAvalanche invocations awaiting a hash, oldest first
    avLast,            \* history: the last handleAvalanche step and its error
    hashRace,          \* history: set by the step that completes the second of two
                       \* overlapping handleComputeHash invocations, to the one of
                       \* the two that was started last
    birthdayResults,   \* #birthday-results content
    birthdayLast       \* history: the last handleBirthdayCalculator step and its error

themeVars == <<localStorage, sysDark, themePc, dataTheme, toggleBtn, themeHist, lastToggled>>

rsaVars == <<currentKeys, lastCiphertext, genPending, markupDisabled, generateBtn, keyGenProgress,
             encryptBtnDisabled, decryptBtnDisabled, ciphertextInput, keyGenResults,
             encryptionResults, decryptionResults, rsaLast>>

avVars == <<avalancheResults, avalancheLoading, avInv, avLast>>

bdVars == <<birthdayResults, birthdayLast>>

hashVars == <<currentHashes, lastInput, hashResults, hashLoading, hashInv, hashLast, avVars,
              hashRace, bdVars>>

notRsaVars == <<page, themeVars, hashVars>>

notThemeVars == <<page, rsaVars, hashVars>>

notHashVars == <<page, themeVars, rsaVars>>

vars == <<page, themeVars, rsaVars, hashVars>>

\* ------------------------------------------------------------------ basics

Null == <<>>

Some(x) == <<x>>

\* Number of history entries kept for the claims about consecutive operations.
HistLen == 2

Push(hist, entry) ==
    LET h == Append(hist, entry)
    IN  IF Len(h) > HistLen THEN SubSeq(h, Len(h) - HistLen + 1, Len(h)) ELSE h

\* localStorage.getItem(key): null when the key is absent
GetItem(ls, key) == IF key \in DOMAIN ls THEN Some(ls[key]) ELSE Null

\* localStorage.setItem(key, value)
SetItem(ls, key, value) ==
    [k \in (DOMAIN ls) \cup {key} |-> IF k = key THEN value ELSE ls[k]]

\* JavaScript truthiness of an optional string
Truthy(opt) == opt # Null /\ opt[1] # ""

\* ------------------------------------------------------- dark-mode-toggle.js

SystemTheme(dark) == IF dark THEN "dark" ELSE "light"

\* Mutant: the system preference wins over the saved one.
GetThemePreferenceSystemFirst(ls, dark) == SystemTheme(dark)

\* getThemePreference: the saved preference, otherwise the system preference
GetThemePreference(ls, dark) ==
    LET saved == GetItem(ls, "theme")
    IN  IF Truthy(saved) THEN saved[1] ELSE SystemTheme(dark)

\* Mutant: the theme is applied to the document but not saved.
StorageAfterApplyNoSave(ls, theme) == ls

\* applyTheme, storage part: localStorage.setItem('theme', theme)
StorageAfterApply(ls, theme) == SetItem(ls, "theme", theme)

\* applyTheme, button part: icon and aria-label, when the button exists
ButtonAfterApply(btn, theme) ==
    IF btn = Null THEN Null
    ELSE Some([text |-> IF theme = "dark" THEN "full-moon" ELSE "new-moon",
               aria |-> IF theme = "dark" THEN "Switch to light mode"
                                          ELSE "Switch to dark mode"])

\* applyTheme(theme)
ApplyTheme(theme) ==
    /\ dataTheme' = Some(theme)
    /\ localStorage' = StorageAfterApply(localStorage, theme)
    /\ toggleBtn' = ButtonAfterApply(toggleBtn, theme)

\* Mutant: toggling always selects dark.
NextThemeAlwaysDark(attr) == "dark"

\* toggleTheme, the theme it selects from the data-theme attribute
NextTheme(attr) ==
    LET current == IF Truthy(attr) THEN attr[1] ELSE "light"
    IN  IF current = "dark" THEN "light" ELSE "dark"

ThemeEntry(op) ==
    [op |-> op, data |-> dataTheme, saved |-> GetItem(localStorage, "theme"),
     dark |-> sysDark]

\* initTheme
InitThemeBody ==
    /\ UNCHANGED notThemeVars
    /\ ApplyTheme(GetThemePreference(localStorage, sysDark))
    /\ themePc' = "ready"
    /\ themeHist' = Push(themeHist, ThemeEntry("initTheme"))
    /\ UNCHANGED <<sysDark, lastToggled>>

\* The script runs in a new document: the matchMedia listener is registered,
\* then initTheme runs now or is deferred to DOMContentLoaded.
ThemeScriptRun(loading) ==
    /\ themePc = "unloaded"
    /\ IF loading
       THEN /\ themePc' = "waiting"
            /\ UNCHANGED <<localStorage, sysDark, dataTheme, toggleBtn, themeHist, lastToggled>>
            /\ UNCHANGED notThemeVars
       ELSE InitThemeBody

\* DOMContentLoaded fires the deferred initTheme
ThemeDomReady ==
    /\ themePc = "waiting"
    /\ InitThemeBody

\* toggleTheme (button click, or the global window.toggleTheme)
ToggleTheme ==
    /\ UNCHANGED notThemeVars
    /\ themePc # "unloaded"
    /\ ApplyTheme(NextTheme(dataTheme))
    /\ lastToggled' = Some(NextTheme(dataTheme))
    /\ themeHist' = Push(themeHist, ThemeEntry("toggleTheme"))
    /\ UNCHANGED <<sysDark, themePc>>

\* The system colour scheme changes; the 'change' listener runs when registered.
SystemChange ==
    /\ UNCHANGED notThemeVars
    /\ sysDark' = ~sysDark
    /\ themeHist' = Push(themeHist, ThemeEntry("systemChange"))
    /\ IF themePc # "unloaded" /\ ~Truthy(GetItem(localStorage, "theme"))
       THEN ApplyTheme(SystemTheme(~sysDark))
       ELSE UNCHANGED <<localStorage, dataTheme, toggleBtn>>
    /\ UNCHANGED <<themePc, lastToggled>>

BlankButton == [text |-> "", aria |-> ""]

\* A document is loaded in place of the one the script ran in: a new
\* document, the same localStorage.
ThemeDocumentLoad ==
    /\ themePc # "unloaded"
    /\ themePc' = "unloaded"
    /\ dataTheme' = Null
    /\ toggleBtn' = IF toggleBtn = Null THEN Null ELSE Some(BlankButton)
    /\ themeHist' = Push(themeHist, ThemeEntry("reload"))
    /\ UNCHANGED <<localStorage, sysDark, lastToggled>>

\* The page is loaded again
ThemeReload ==
    /\ ThemeDocumentLoad
    /\ UNCHANGED notThemeVars

ThemeInit ==
    /\ localStorage = << >>
    /\ sysDark \in BOOLEAN
    /\ themePc = "unloaded"
    /\ dataTheme = Null
    /\ toggleBtn \in {Null, Some(BlankButton)}
    /\ themeHist = << >>
    /\ lastToggled = Null

ThemeNext ==
    \/ \E loading \in BOOLEAN : ThemeScriptRun(loading)
    \/ ThemeDomReady
    \/ ToggleTheme
    \/ SystemChange
    \/ ThemeReload

\* ------------------------------------------- MathUtils (not in src/)

\* Character codes String.prototype.trim removes (those the inputs can hold)
WhiteSpace == {9, 10, 11, 12, 13, 32}

RECURSIVE TrimStart(_)
TrimStart(s) ==
    IF s # << >> /\ Head(s) \in WhiteSpace THEN TrimStart(Tail(s)) ELSE s

RECURSIVE TrimEnd(_)
TrimEnd(s) ==
    IF s # << >> /\ s[Len(s)] \in WhiteSpace THEN TrimEnd(SubSeq(s, 1, Len(s) - 1)) ELSE s

\* String.prototype.trim
Trim(s) == TrimEnd(TrimStart(s))

\* MathUtils.stringToBigInt: the bytes of the message as one big-endian number
RECURSIVE StringToBigInt(_)
StringToBigInt(s) ==
    IF s = << >> THEN 0
    ELSE StringToBigInt(SubSeq(s, 1, Len(s) - 1)) * 256 + s[Len(s)]

\* MathUtils.bigIntToString: the bytes of the number, most significant first
RECURSIVE BigIntToString(_)
BigIntToString(v) ==
    IF v = 0 THEN << >>
    ELSE Append(BigIntToString(v \div 256), v % 256)

\* BigInt.prototype.toString(): decimal digits as character codes
RECURSIVE ToDecimal(_)
ToDecimal(v) ==
    IF v < 10 THEN <<48 + v>>
    ELSE Append(ToDecimal(v \div 10), 48 + (v % 10))

RECURSIVE DigitsValue(_)
DigitsValue(s) ==
    IF s = << >> THEN 0
    ELSE DigitsValue(SubSeq(s, 1, Len(s) - 1)) * 10 + (s[Len(s)] - 48)

\* BigInt(string) of a trimmed non-empty string: the value of a decimal
\* literal, a SyntaxError (Null) for anything else
ParseBigInt(s) ==
    IF \A i \in 1..Len(s) : s[i] \in 48..57 THEN Some(DigitsValue(s)) ELSE Null

\* --------------------------------------------- RSACore (not in src/)

RECURSIVE BitLength(_)
BitLength(v) == IF v = 0 THEN 0 ELSE 1 + BitLength(v \div 2)

\* Modular exponentiation by squaring
RECURSIVE ModPow(_, _, _)
ModPow(base, exp, n) ==
    IF exp = 0 THEN 1 % n
    ELSE LET half == ModPow(base, exp \div 2, n)
             sq == (half * half) % n
         IN  IF exp % 2 = 1 THEN (sq * (base % n)) % n ELSE sq

\* Extended Euclidean algorithm: <<g, x, y>> with a*x + b*y = g
RECURSIVE ExtGcd(_, _)
ExtGcd(a, b) ==
    IF b = 0 THEN <<a, 1, 0>>
    ELSE LET r == ExtGcd(b, a % b)
         IN  <<r[1], r[3], r[2] - (a \div b) * r[3]>>

ModInverse(a, m) == ExtGcd(a % m, m)[2] % m

IsPrime(v) == v > 1 /\ \A k \in 2..(v - 1) : (v % k) # 0

\* The public exponent
PublicExponent == 65537

\* Candidates the prime search of the model draws from (the squares of the
\* moduli they give stay within the integers of the model checker)
PrimeCandidates == {11, 13, 15, 181, 249, 251}

\* The key pairs generateKeyPair can resolve with for a key size: two
\* distinct primes of half the size each, with e invertible modulo phi
KeyPairs(keySize) ==
    { [publicKey |-> [e |-> PublicExponent, n |-> pq[1] * pq[2]],
       privateKey |-> [d |-> ModInverse(PublicExponent, (pq[1] - 1) * (pq[2] - 1)),
                       n |-> pq[1] * pq[2]],
       p |-> pq[1], q |-> pq[2], phi |-> (pq[1] - 1) * (pq[2] - 1)] :
      pq \in { c \in PrimeCandidates \X PrimeCandidates :
                 /\ IsPrime(c[1]) /\ IsPrime(c[2])
                 /\ c[1] < c[2]
                 /\ BitLength(c[1]) * 2 = keySize
                 /\ BitLength(c[2]) * 2 = keySize
                 /\ ExtGcd(PublicExponent, (c[1] - 1) * (c[2] - 1))[1] = 1 } }

\* RSACore.encrypt(m, publicKey) = m^e mod n
RSAEncrypt(m, publicKey) == ModPow(m, publicKey.e, publicKey.n)

\* RSACore.decrypt(c, privateKey) = c^d mod n
RSADecrypt(c, privateKey) == ModPow(c, privateKey.d, privateKey.n)

\* ---- inputs of the RSA page

\* Values of #plaintext-input the user clicks Encrypt with (NUL is 0, space
\* 32, 'A' 65, 'B' 66): empty, blank, "A", " A ", NUL, NUL "A", "AB", "ABA"
Messages ==
    { << >>, <<32>>, <<65>>, <<32, 65, 32>>, <<0>>, <<0, 65>>, <<65, 66>>, <<65, 66, 65>> }

\* Key sizes of the #key-size select
KeySizes == {8, 16}

\* The key pairs of each key size
KeyPairsOf == [keySize \in KeySizes |-> KeyPairs(keySize)]

\* Texts the user types over the ciphertext: empty, not a number, a number
CipherEdits == { << >>, <<120>>, <<49, 50>> }

\* ---------------------------------------------- RSA tool controller

\* A handler step: its name, the error it showed, the RSACore operation it
\* called, and the integer it computed from its input (when it got that far)
RsaStep(op, error, core, value) ==
    [op |-> op, error |-> error, core |-> core, value |-> value]

\* UIUtils.showError(message) as the only effect of a handler run
RsaReject(op, error, value) ==
    /\ rsaLast' = RsaStep(op, error, "none", value)
    /\ UNCHANGED notRsaVars
    /\ UNCHANGED <<currentKeys, lastCiphertext, genPending, markupDisabled, generateBtn,
                   keyGenProgress, encryptBtnDisabled, decryptBtnDisabled, ciphertextInput,
                   keyGenResults, encryptionResults, decryptionResults>>

\* Stages of RSACore.generateKeyPair that updateProgress shows (the first and
\* the last of its six)
ProgressStages == {"Generating prime p", "Complete"}

\* handleGenerateKeys up to its await
HandleGenerateKeys(keySize) ==
    /\ page = "rsa"
    /\ ~generateBtn.disabled
    /\ generateBtn' = [disabled |-> TRUE, text |-> "Generating..."]
    /\ keyGenResults' = Null
    /\ encryptionResults' = Null
    /\ decryptionResults' = Null
    /\ keyGenProgress' = "Initializing key generation..."
    /\ genPending' = Some(keySize)
    /\ rsaLast' = RsaStep("handleGenerateKeys", "", "generateKeyPair", Some(keySize))
    /\ UNCHANGED <<currentKeys, lastCiphertext, markupDisabled, encryptBtnDisabled,
                   decryptBtnDisabled, ciphertextInput>>
    /\ UNCHANGED notRsaVars

\* updateProgress(stage, data), called back by generateKeyPair
UpdateProgress(stage) ==
    /\ page = "rsa"
    /\ genPending # Null
    /\ keyGenProgress' = stage
    /\ rsaLast' = RsaStep("updateProgress", "", "none", Null)
    /\ UNCHANGED <<currentKeys, lastCiphertext, genPending, markupDisabled, generateBtn,
                   encryptBtnDisabled, decryptBtnDisabled, ciphertextInput,
                   keyGenResults, encryptionResults, decryptionResults>>
    /\ UNCHANGED notRsaVars

\* Mutant: the finally block resets the button and leaves the progress
\* indicator on.
GenerateFinallyProgressLeft ==
    /\ generateBtn' = [disabled |-> FALSE, text |-> "Generate RSA Keys"]
    /\ UNCHANGED keyGenProgress
    /\ genPending' = Null

\* handleGenerateKeys, finally block: resetButton and hideLoading
GenerateFinally ==
    /\ generateBtn' = [disabled |-> FALSE, text |-> "Generate RSA Keys"]
    /\ keyGenProgress' = "hidden"
    /\ genPending' = Null

\* Mutant: the keys are also written to localStorage.
StorageAfterKeysPersisted(ls, keys) == SetItem(ls, "rsa-keys", keys)

\* localStorage after "currentKeys = keys": the keys are stored in memory,
\* nothing is written
StorageAfterKeys(ls, keys) == ls

\* handleGenerateKeys after the await resolved with keys
GenerateKeysResolved(keys) ==
    /\ page = "rsa"
    /\ genPending # Null
    /\ keys \in KeyPairsOf[genPending[1]]
    /\ currentKeys' = Some(keys)
    /\ localStorage' = StorageAfterKeys(localStorage, keys)
    /\ keyGenResults' = Some(keys)
    /\ encryptBtnDisabled' = FALSE
    /\ GenerateFinally
    /\ rsaLast' = RsaStep("generateKeysResolved", "", "none", Null)
    /\ UNCHANGED <<lastCiphertext, markupDisabled, decryptBtnDisabled, ciphertextInput,
                   encryptionResults, decryptionResults>>
    /\ UNCHANGED <<page, sysDark, themePc, dataTheme, toggleBtn, themeHist, lastToggled,
                   hashVars>>

\* Mutant: the encrypt button is enabled in the finally block, whatever the
\* outcome of the key generation.
GenerateKeysRejectedEnabling ==
    /\ page = "rsa"
    /\ genPending # Null
    /\ GenerateFinally
    /\ encryptBtnDisabled' = FALSE
    /\ rsaLast' = RsaStep("generateKeysRejected", "Key generation failed", "none", Null)
    /\ UNCHANGED <<currentKeys, lastCiphertext, markupDisabled, decryptBtnDisabled,
                   ciphertextInput, keyGenResults, encryptionResults, decryptionResults>>
    /\ UNCHANGED notRsaVars

\* handleGenerateKeys after the await rejected
GenerateKeysRejected ==
    /\ page = "rsa"
    /\ genPending # Null
    /\ GenerateFinally
    /\ rsaLast' = RsaStep("generateKeysRejected", "Key generation failed", "none", Null)
    /\ UNCHANGED <<currentKeys, lastCiphertext, markupDisabled, encryptBtnDisabled,
                   decryptBtnDisabled, ciphertextInput, keyGenResults, encryptionResults,
                   decryptionResults>>
    /\ UNCHANGED notRsaVars

\* Mutant: the size check lets a message equal to or above n through.
MessageTooLargeNever(messageInt, n) == FALSE

\* handleEncrypt: if (messageInt >= currentKeys.publicKey.n)
MessageTooLarge(messageInt, n) == messageInt >= n

\* Mutant: the guard on currentKeys is missing.
KeysMissingNever(keys) == FALSE

\* if (!currentKeys)
KeysMissing(keys) == keys = Null

\* handleEncrypt, the encryption itself and what follows it
EncryptAndShow(message, messageInt) ==
    LET publicKey == currentKeys[1].publicKey
        ciphertext == RSAEncrypt(messageInt, publicKey)
    IN  /\ lastCiphertext' = Some(ciphertext)
        /\ encryptionResults' =
              Some([originalMessage |-> message, messageInt |-> ToDecimal(messageInt),
                    ciphertext |-> ToDecimal(ciphertext), publicKey |-> publicKey])
        /\ ciphertextInput' = ToDecimal(ciphertext)
        /\ decryptBtnDisabled' = FALSE
        /\ rsaLast' = RsaStep("handleEncrypt", "", "encrypt", Some(messageInt))
        /\ UNCHANGED <<currentKeys, genPending, markupDisabled, generateBtn, keyGenProgress,
                       encryptBtnDisabled, keyGenResults, decryptionResults>>
        /\ UNCHANGED notRsaVars

\* handleEncrypt, with the value of #plaintext-input; reading publicKey of a
\* null currentKeys inside the try block throws, and the catch reports it
HandleEncrypt(input) ==
    /\ page = "rsa"
    /\ ~encryptBtnDisabled
    /\ LET message == Trim(input)
           messageInt == StringToBigInt(message)
       IN  IF KeysMissing(currentKeys)
           THEN RsaReject("handleEncrypt", "Please generate keys first!", Null)
           ELSE IF message = << >>
           THEN RsaReject("handleEncrypt", "Please enter a message to encrypt", Null)
           ELSE IF currentKeys = Null
           THEN RsaReject("handleEncrypt", "Encryption failed", Null)
           ELSE IF MessageTooLarge(messageInt, currentKeys[1].publicKey.n)
           THEN RsaReject("handleEncrypt", "Message too large!", Some(messageInt))
           ELSE EncryptAndShow(message, messageInt)

\* Mutant: decryption raises to the public exponent.
DecryptKeyPublic(keys) == [d |-> keys.publicKey.e, n |-> keys.publicKey.n]

\* handleDecrypt: the key it hands to RSACore.decrypt, currentKeys.privateKey
DecryptKey(keys) == keys.privateKey

\* handleDecrypt, the decryption itself and what follows it
DecryptAndShow(ciphertext) ==
    LET plaintextInt == RSADecrypt(ciphertext, DecryptKey(currentKeys[1]))
    IN  /\ decryptionResults' =
              Some([ciphertext |-> ToDecimal(ciphertext),
                    plaintextInt |-> ToDecimal(plaintextInt),
                    plaintextStr |-> BigIntToString(plaintextInt),
                    privateKey |-> currentKeys[1].privateKey])
        /\ rsaLast' = RsaStep("handleDecrypt", "", "decrypt", Some(ciphertext))
        /\ UNCHANGED <<currentKeys, lastCiphertext, genPending, markupDisabled, generateBtn,
                       keyGenProgress, encryptBtnDisabled, decryptBtnDisabled,
                       ciphertextInput, keyGenResults, encryptionResults>>
        /\ UNCHANGED notRsaVars

\* handleDecrypt; BigInt() of a string that is no number throws, and so does
\* reading privateKey of a null currentKeys: the catch reports either
HandleDecrypt ==
    /\ page = "rsa"
    /\ ~decryptBtnDisabled
    /\ LET ciphertextStr == Trim(ciphertextInput)
       IN  IF KeysMissing(currentKeys)
           THEN RsaReject("handleDecrypt", "Please generate keys first!", Null)
           ELSE IF ciphertextStr = << >>
           THEN RsaReject("handleDecrypt", "Please enter ciphertext to decrypt", Null)
           ELSE IF ParseBigInt(ciphertextStr) = Null \/ currentKeys = Null
           THEN RsaReject("handleDecrypt", "Decryption failed", Null)
           ELSE DecryptAndShow(ParseBigInt(ciphertextStr)[1])

\* The user edits #ciphertext-input
EditCiphertext(text) ==
    /\ page = "rsa"
    /\ ciphertextInput # text
    /\ ciphertextInput' = text
    /\ rsaLast' = RsaStep("editCiphertext", "", "none", Null)
    /\ UNCHANGED <<currentKeys, lastCiphertext, genPending, markupDisabled, generateBtn,
                   keyGenProgress, encryptBtnDisabled, decryptBtnDisabled, keyGenResults,
                   encryptionResults, decryptionResults>>
    /\ UNCHANGED notRsaVars

\* The state of the RSA page when its document has loaded: the script's
\* globals, and the two workflow buttons as the markup has them
RsaLoaded(keys, ct, pending, genBtn, progress, encDisabled, decDisabled, ctInput, kgRes, encRes, decRes, last) ==
    /\ keys = Null
    /\ ct = Null
    /\ pending = Null
    /\ genBtn = [disabled |-> FALSE, text |-> "Generate RSA Keys"]
    /\ progress = "hidden"
    /\ encDisabled = markupDisabled
    /\ decDisabled = markupDisabled
    /\ ctInput = << >>
    /\ kgRes = Null
    /\ encRes = Null
    /\ decRes = Null
    /\ last = RsaStep("load", "", "none", Null)

RsaInit ==
    /\ markupDisabled \in BOOLEAN
    /\ RsaLoaded(currentKeys, lastCiphertext, genPending, generateBtn, keyGenProgress,
                 encryptBtnDisabled, decryptBtnDisabled, ciphertextInput, keyGenResults,
                 encryptionResults, decryptionResults, rsaLast)

\* The state of the script is that of a fresh load of the RSA page: nothing
\* of currentKeys, lastCiphertext or the results survives
RsaReset ==
    /\ RsaLoaded(currentKeys', lastCiphertext', genPending', generateBtn', keyGenProgress',
                 encryptBtnDisabled', decryptBtnDisabled', ciphertextInput', keyGenResults',
                 encryptionResults', decryptionResults', rsaLast')
    /\ UNCHANGED markupDisabled

\* The RSA page is loaded again
RsaPageLoad ==
    /\ page = "rsa"
    /\ RsaReset
    /\ UNCHANGED notRsaVars

RsaNext ==
    \/ \E keySize \in KeySizes : HandleGenerateKeys(keySize)
    \/ \E stage \in ProgressStages : UpdateProgress(stage)
    \/ \E keys \in UNION { KeyPairsOf[k] : k \in KeySizes } : GenerateKeysResolved(keys)
    \/ GenerateKeysRejected
    \/ \E input \in Messages : HandleEncrypt(input)
    \/ HandleDecrypt
    \/ \E text \in CipherEdits : EditCiphertext(text)
    \/ RsaPageLoad

\* ------------------------------------------------------------- HashCore

\* Seed that tells the algorithms apart
HashSeed(algo) == IF algo = "MD5" THEN 7 ELSE 13

\* HashCore.computeHash(input, algo): a digest that depends on the algorithm
\* and on every character of the input
RECURSIVE Digest(_, _)
Digest(input, algo) ==
    IF input = << >> THEN HashSeed(algo)
    ELSE (Digest(SubSeq(input, 1, Len(input) - 1), algo) * 31 + input[Len(input)]) % 251

\* --------------------------------------------------- hash tool: inputs

\* Values of #hash-input the user clicks Compute with: empty, "A", "B"
HashInputs == { << >>, <<65>>, <<66>> }

\* Checked boxes of input[name="hash-algorithm"], in document order
AlgoSelections == { << >>, <<"MD5">>, <<"MD5", "SHA-256">> }

\* Largest number of handleComputeHash invocations awaiting at once
MaxInFlight == 2

\* ------------------------------------------- hash visualizer controller

\* const results = {}
EmptyObject == [algo \in {} |-> 0]

\* Mutant: each result replaces the object instead of being added to it.
WithEntryReplacing(results, algo, hash) == [a \in {algo} |-> [hash |-> hash]]

\* results[algo] = { hash, time }; the measured time is left out
WithEntry(results, algo, hash) ==
    [a \in DOMAIN results \cup {algo} |-> IF a = algo THEN [hash |-> hash] ELSE results[a]]

\* A handler step: its name, the error it showed, the HashCore operation it
\* called, and the input and selection it worked on
HashStep(op, error, core, input, algos) ==
    [op |-> op, error |-> error, core |-> core, input |-> input, algos |-> algos]

\* UIUtils.showError(message); return
HashReject(error, input, algos) ==
    /\ hashLast' = HashStep("handleComputeHash", error, "none", input, algos)
    /\ hashRace' = Null
    /\ UNCHANGED <<currentHashes, lastInput, hashResults, hashLoading, hashInv>>
    /\ UNCHANGED <<notHashVars, avVars, bdVars>>

\* Mutant: the check of the selection is missing.
NoneSelectedNever(selectedAlgos) == FALSE

\* if (selectedAlgos.length === 0)
NoneSelected(selectedAlgos) == Len(selectedAlgos) = 0

\* if (!input)
InputMissing(input) == input = << >>

\* The sequence without its element at position i
Without(seq, i) == SubSeq(seq, 1, i - 1) \o SubSeq(seq, i + 1, Len(seq))

\* History: what tells an invocation from the others
InvocationId(inv) == [input |-> inv.input, algos |-> inv.algos]

\* History: invocation i of the queue completes; the older ones (before it)
\* note the newest completed invocation that was started after them, the
\* newer ones (after it) that an older one has completed
MarkCompleted(queue, i) ==
    LET newest == IF queue[i].newerDone # Null THEN queue[i].newerDone
                  ELSE Some(InvocationId(queue[i]))
    IN  [j \in 1..Len(queue) |->
            IF j < i THEN [queue[j] EXCEPT !.newerDone = newest]
            ELSE IF j > i THEN [queue[j] EXCEPT !.olderDone = TRUE]
            ELSE queue[j]]

\* History: the later started of the two overlapping invocations that have
\* both completed, when inv is the second to complete
RaceAtCompletion(inv) ==
    IF inv.newerDone # Null THEN inv.newerDone
    ELSE IF inv.olderDone THEN Some(InvocationId(inv))
    ELSE Null

\* handleComputeHash up to its first await; with no algorithm to loop over
\* (reachable only past a missing check) it completes at once
HandleComputeHash(input, selectedAlgos) ==
    /\ page = "hash"
    /\ IF InputMissing(input)
       THEN HashReject("Please enter text to hash", input, selectedAlgos)
       ELSE IF NoneSelected(selectedAlgos)
       THEN HashReject("Please select at least one hash algorithm", input, selectedAlgos)
       ELSE IF selectedAlgos = << >>
       THEN /\ currentHashes' = EmptyObject
            /\ lastInput' = input
            /\ hashResults' = Some([input |-> input, results |-> EmptyObject])
            /\ hashLoading' = FALSE
            /\ hashLast' = HashStep("handleComputeHash", "", "none", input, selectedAlgos)
            /\ hashRace' = Null
            /\ UNCHANGED hashInv
            /\ UNCHANGED <<notHashVars, avVars, bdVars>>
       ELSE /\ Len(hashInv) < MaxInFlight
            /\ hashResults' = Null
            /\ hashLoading' = TRUE
            /\ hashInv' = Append(hashInv, [input |-> input, algos |-> selectedAlgos,
                                           next |-> 1, results |-> EmptyObject,
                                           newerDone |-> Null, olderDone |-> FALSE])
            /\ hashRace' = Null
            /\ hashLast' = HashStep("handleComputeHash", "", "computeHash", input,
                                    selectedAlgos)
            /\ UNCHANGED <<currentHashes, lastInput>>
            /\ UNCHANGED <<notHashVars, avVars, bdVars>>

\* handleComputeHash of invocation i after its awaited computeHash resolved:
\* the next algorithm of the loop, or what follows the loop and the finally
ComputeHashResolved(i) ==
    /\ page = "hash"
    /\ i \in 1..Len(hashInv)
    /\ LET inv == hashInv[i]
           algo == inv.algos[inv.next]
           results == WithEntry(inv.results, algo, Digest(inv.input, algo))
       IN  IF inv.next < Len(inv.algos)
           THEN /\ hashInv' = [hashInv EXCEPT ![i].next = inv.next + 1,
                                              ![i].results = results]
                /\ hashLast' = HashStep("computeHashResolved", "", "computeHash",
                                        inv.input, inv.algos)
                /\ hashRace' = Null
                /\ UNCHANGED <<currentHashes, lastInput, hashResults, hashLoading>>
           ELSE /\ currentHashes' = results
                /\ lastInput' = inv.input
                /\ hashResults' = Some([input |-> inv.input, results |-> results])
                /\ hashLoading' = FALSE
                /\ hashInv' = Without(MarkCompleted(hashInv, i), i)
                /\ hashRace' = RaceAtCompletion(inv)
                /\ hashLast' = HashStep("computeHashCompleted", "", "none",
                                        inv.input, inv.algos)
    /\ UNCHANGED <<notHashVars, avVars, bdVars>>

\* Mutant: the rejection is caught inside the loop, which goes on with the
\* next algorithm.
ComputeHashRejectedContinuing(i) ==
    /\ page = "hash"
    /\ i \in 1..Len(hashInv)
    /\ IF hashInv[i].next < Len(hashInv[i].algos)
       THEN /\ hashInv' = [hashInv EXCEPT ![i].next = hashInv[i].next + 1]
            /\ hashLast' = HashStep("computeHashRejected", "Hash computation failed",
                                    "computeHash", hashInv[i].input, hashInv[i].algos)
            /\ UNCHANGED hashLoading
       ELSE /\ hashInv' = Without(hashInv, i)
            /\ hashLast' = HashStep("computeHashRejected", "Hash computation failed",
                                    "none", hashInv[i].input, hashInv[i].algos)
            /\ hashLoading' = FALSE
    /\ hashRace' = Null
    /\ UNCHANGED <<currentHashes, lastInput, hashResults>>
    /\ UNCHANGED <<notHashVars, avVars, bdVars>>

\* handleComputeHash of invocation i after its awaited computeHash rejected:
\* catch and finally
ComputeHashRejected(i) ==
    /\ page = "hash"
    /\ i \in 1..Len(hashInv)
    /\ hashLoading' = FALSE
    /\ hashInv' = Without(hashInv, i)
    /\ hashLast' = HashStep("computeHashRejected", "Hash computation failed", "none",
                            hashInv[i].input, hashInv[i].algos)
    /\ hashRace' = Null
    /\ UNCHANGED <<currentHashes, lastInput, hashResults>>
    /\ UNCHANGED <<notHashVars, avVars, bdVars>>

\* ---- avalanche effect

\* Values of #avalanche-input the user clicks with: empty, "A", "~", "}",
\* DEL, "A~", "~A"
AvalancheInputs == { << >>, <<65>>, <<126>>, <<125>>, <<127>>, <<65, 126>>, <<126, 65>> }

\* Values of the #avalanche-algorithm select
AvalancheAlgorithms == {"SHA-256"}

\* Number of bits in which two naturals differ
RECURSIVE DiffBits(_, _)
DiffBits(a, b) ==
    IF a = 0 /\ b = 0 THEN 0
    ELSE (IF a % 2 # b % 2 THEN 1 ELSE 0) + DiffBits(a \div 2, b \div 2)

\* HashUtils.computeAvalanche(hash1, hash2): the bits that changed
ComputeAvalanche(hash1, hash2) == DiffBits(hash1, hash2)

\* code ^ 1
FlipLowBit(code) == IF code % 2 = 0 THEN code + 1 ELSE code - 1

\* Mutant: the last bit is flipped whatever the character.
ModifiedLastPlain(code) == FlipLowBit(code)

\* charAt(length - 1) === '~' ? 124 : charCodeAt(length - 1) ^ 1
ModifiedLast(code) == IF code = 126 THEN 124 ELSE FlipLowBit(code)

\* baseInput.slice(0, -1) + String.fromCharCode(...)
ModifiedInput(baseInput) ==
    SubSeq(baseInput, 1, Len(baseInput) - 1) \o <<ModifiedLast(baseInput[Len(baseInput)])>>

AvStep(op, error, base) == [op |-> op, error |-> error, base |-> base]

\* handleAvalanche up to its first await
HandleAvalanche(baseInput, algorithm) ==
    /\ page = "hash"
    /\ IF InputMissing(baseInput)
       THEN /\ avLast' = AvStep("handleAvalanche", "Please enter base text for avalanche test",
                                baseInput)
            /\ UNCHANGED <<avalancheResults, avalancheLoading, avInv>>
       ELSE /\ Len(avInv) < MaxInFlight
            /\ avalancheResults' = Null
            /\ avalancheLoading' = TRUE
            /\ avInv' = Append(avInv, [baseInput |-> baseInput, algorithm |-> algorithm,
                                       await |-> 1, originalHash |-> Null,
                                       modifiedInput |-> Null])
            /\ avLast' = AvStep("handleAvalanche", "", baseInput)
    /\ UNCHANGED <<currentHashes, lastInput, hashResults, hashLoading, hashInv, hashLast,
                   hashRace, bdVars>>
    /\ UNCHANGED notHashVars

\* handleAvalanche of invocation i after an awaited computeHash resolved:
\* after the first, the modified input and the second call; after the
\* second, the avalanche, the display and the finally
AvalancheHashResolved(i) ==
    /\ page = "hash"
    /\ i \in 1..Len(avInv)
    /\ LET inv == avInv[i]
       IN  IF inv.await = 1
           THEN /\ avInv' = [avInv EXCEPT
                                ![i].await = 2,
                                ![i].originalHash = Some(Digest(inv.baseInput, inv.algorithm)),
                                ![i].modifiedInput = Some(ModifiedInput(inv.baseInput))]
                /\ avLast' = AvStep("avalancheOriginalHashed", "", inv.baseInput)
                /\ UNCHANGED <<avalancheResults, avalancheLoading>>
           ELSE LET modifiedHash == Digest(inv.modifiedInput[1], inv.algorithm)
                IN  /\ avalancheResults' =
                          Some([original |-> inv.baseInput,
                                modified |-> inv.modifiedInput[1],
                                hash1 |-> inv.originalHash[1],
                                hash2 |-> modifiedHash,
                                avalanche |-> ComputeAvalanche(inv.originalHash[1], modifiedHash),
                                algorithm |-> inv.algorithm])
                    /\ avalancheLoading' = FALSE
                    /\ avInv' = Without(avInv, i)
                    /\ avLast' = AvStep("avalancheCompleted", "", inv.baseInput)
    /\ UNCHANGED <<currentHashes, lastInput, hashResults, hashLoading, hashInv, hashLast,
                   hashRace, bdVars>>
    /\ UNCHANGED notHashVars

\* handleAvalanche of invocation i after an awaited computeHash rejected:
\* catch and finally
AvalancheRejected(i) ==
    /\ page = "hash"
    /\ i \in 1..Len(avInv)
    /\ avalancheLoading' = FALSE
    /\ avInv' = Without(avInv, i)
    /\ avLast' = AvStep("avalancheRejected", "Avalanche test failed", avInv[i].baseInput)
    /\ UNCHANGED avalancheResults
    /\ UNCHANGED <<currentHashes, lastInput, hashResults, hashLoading, hashInv, hashLast,
                   hashRace, bdVars>>
    /\ UNCHANGED notHashVars

\* ---- birthday attack calculator

\* Probabilities are in units of a ten-millionth of a percent: 10 is
\* 0.000001 %, 100000 is 0.01 %, 100000000 is 10 %, 1000000000 is 100 %

\* Values of the #birthday-algorithm select; the last is not an algorithm
BirthdayAlgorithms == {"MD5", "SHA-256", "none"}

\* Config.getAlgorithmInfo(algorithm)
AlgorithmInfo(algorithm) ==
    IF algorithm = "MD5" THEN Some([name |-> "MD5", outputBits |-> 128])
    ELSE IF algorithm = "SHA-256" THEN Some([name |-> "SHA-256", outputBits |-> 256])
    ELSE Null

\* Values HashUtils.birthdayAttackProbability(...) * 100 may take: zero, the
\* three thresholds, the value just below each, and 100 %
ProbabilitySamples == {0, 9, 10, 99999, 100000, 99999999, 100000000, 1000000000}

\* The four attempt counts: 2^(bits/4), 2^(bits/3), 2^(bits/2), 2^(bits/1.5)
AttemptLabels == <<"bits/4", "bits/3", "bits/2", "bits/1.5">>

\* The probabilities of a table: one for each attempt count, not decreasing
\* as the attempts grow
ProbabilityTables ==
    { t \in [1..Len(AttemptLabels) -> ProbabilitySamples] :
        \A k \in 1..(Len(AttemptLabels) - 1) : t[k] <= t[k + 1] }

\* Mutant: the thresholds are compared with <= instead of <.
AssessmentInclusive(probability) ==
    IF probability <= 10 THEN "Effectively Impossible"
    ELSE IF probability <= 100000 THEN "Highly Secure"
    ELSE IF probability <= 100000000 THEN "Possible with Resources"
    ELSE "Practical Attack"

\* handleBirthdayCalculator, the security assessment of a probability
Assessment(probability) ==
    IF probability < 10 THEN "Effectively Impossible"
    ELSE IF probability < 100000 THEN "Highly Secure"
    ELSE IF probability < 100000000 THEN "Possible with Resources"
    ELSE "Practical Attack"

\* handleBirthdayCalculator, with the probabilities HashUtils computes for
\* the four attempt counts
HandleBirthdayCalculator(algorithm, probabilities) ==
    /\ page = "hash"
    /\ LET info == AlgorithmInfo(algorithm)
       IN  IF info = Null
           THEN /\ birthdayLast' = [op |-> "handleBirthdayCalculator",
                                    error |-> "Invalid algorithm selected"]
                /\ UNCHANGED birthdayResults
           ELSE /\ birthdayResults' =
                      Some([info |-> info[1],
                            probabilities |->
                                [k \in 1..Len(AttemptLabels) |->
                                    [label |-> AttemptLabels[k],
                                     probability |-> probabilities[k],
                                     assessment |-> Assessment(probabilities[k])]]])
                /\ birthdayLast' = [op |-> "handleBirthdayCalculator", error |-> ""]
    /\ UNCHANGED <<currentHashes, lastInput, hashResults, hashLoading, hashInv, hashLast,
                   hashRace, avVars>>
    /\ UNCHANGED notHashVars

BirthdayLoaded(results, last) ==
    /\ results = Null
    /\ last = [op |-> "load", error |-> ""]

AvalancheLoaded(results, loading, inv, last) ==
    /\ results = Null
    /\ loading = FALSE
    /\ inv = << >>
    /\ last = AvStep("load", "", << >>)

\* The state of the hash page when its document has loaded
HashLoaded(hashes, input, results, loading, inv, last) ==
    /\ hashes = EmptyObject
    /\ input = << >>
    /\ results = Null
    /\ loading = FALSE
    /\ inv = << >>
    /\ last = HashStep("load", "", "none", << >>, << >>)

HashInit ==
    /\ HashLoaded(currentHashes, lastInput, hashResults, hashLoading, hashInv, hashLast)
    /\ hashRace = Null
    /\ BirthdayLoaded(birthdayResults, birthdayLast)
    /\ AvalancheLoaded(avalancheResults, avalancheLoading, avInv, avLast)

\* A fresh load of the hash page: nothing of the script's state survives
HashReset ==
    /\ HashLoaded(currentHashes', lastInput', hashResults', hashLoading', hashInv', hashLast')
    /\ hashRace' = Null
    /\ BirthdayLoaded(birthdayResults', birthdayLast')
    /\ AvalancheLoaded(avalancheResults', avalancheLoading', avInv', avLast')

\* The hash page is loaded again
HashPageLoad ==
    /\ page = "hash"
    /\ HashReset
    /\ UNCHANGED notHashVars

HashNext ==
    \/ \E input \in HashInputs, selectedAlgos \in AlgoSelections :
          HandleComputeHash(input, selectedAlgos)
    \/ \E i \in 1..MaxInFlight : ComputeHashResolved(i)
    \/ \E i \in 1..MaxInFlight : ComputeHashRejected(i)
    \/ HashPageLoad

\* ---------------------------------------------------------- specifications

Pages == {"rsa", "hash"}

\* A theme script that stays as the document found it
ThemeQuiet == ThemeInit /\ ~sysDark /\ toggleBtn = Null

\* An RSA page whose script stays as loaded
RsaQuiet == RsaInit /\ markupDisabled

InitTheme == page = "rsa" /\ ThemeInit /\ RsaQuiet /\ HashInit

SpecTheme == InitTheme /\ [][ThemeNext]_vars

InitRSA == page = "rsa" /\ ThemeQuiet /\ RsaInit /\ HashInit

SpecRSA == InitRSA /\ [][RsaNext]_vars

InitHash == page = "hash" /\ ThemeQuiet /\ RsaQuiet /\ HashInit

SpecHash == InitHash /\ [][HashNext]_vars

AvalancheNext ==
    \/ \E baseInput \in AvalancheInputs, algorithm \in AvalancheAlgorithms :
          HandleAvalanche(baseInput, algorithm)
    \/ \E i \in 1..MaxInFlight : AvalancheHashResolved(i)
    \/ \E i \in 1..MaxInFlight : AvalancheRejected(i)
    \/ HashPageLoad

SpecAvalanche == InitHash /\ [][AvalancheNext]_vars

BirthdayNext ==
    \/ \E algorithm \in BirthdayAlgorithms, probabilities \in ProbabilityTables :
          HandleBirthdayCalculator(algorithm, probabilities)
    \/ HashPageLoad

SpecBirthday == InitHash /\ [][BirthdayNext]_vars

\* ---- the handlers that show a loading state, their awaited operations
\* settling: every pending generateKeyPair and computeHash call resolves or
\* rejects in the end

LoadingKeySizes == {8}

LoadingHashInputs == { <<65>> }

LoadingAlgoSelections == { <<"MD5", "SHA-256">> }

LoadingAvalancheInputs == { <<65>> }

InitLoading == page \in Pages /\ ThemeQuiet /\ RsaQuiet /\ HashInit

GenerateKeysSettled ==
    \/ \E keys \in UNION { KeyPairsOf[k] : k \in LoadingKeySizes } : GenerateKeysResolved(keys)
    \/ GenerateKeysRejected

ComputeHashSettled(i) == ComputeHashResolved(i) \/ ComputeHashRejected(i)

AvalancheHashSettled(i) == AvalancheHashResolved(i) \/ AvalancheRejected(i)

LoadingNext ==
    \/ \E keySize \in LoadingKeySizes : HandleGenerateKeys(keySize)
    \/ UpdateProgress("Complete")
    \/ GenerateKeysSettled
    \/ \E input \in LoadingHashInputs, selectedAlgos \in LoadingAlgoSelections :
          HandleComputeHash(input, selectedAlgos)
    \/ \E i \in 1..MaxInFlight : ComputeHashSettled(i)
    \/ \E baseInput \in LoadingAvalancheInputs, algorithm \in AvalancheAlgorithms :
          HandleAvalanche(baseInput, algorithm)
    \/ \E i \in 1..MaxInFlight : AvalancheHashSettled(i)

SpecLoading ==
    /\ InitLoading
    /\ [][LoadingNext]_vars
    /\ WF_vars(GenerateKeysSettled)
    /\ \A i \in 1..MaxInFlight : WF_vars(ComputeHashSettled(i))
    /\ \A i \in 1..MaxInFlight : WF_vars(AvalancheHashSettled(i))

\* ---- the site: both pages, the theme script running on each

\* The browser loads page p (the same page again, or the other one): a new
\* document whose scripts start afresh, the same localStorage
Navigate(p) ==
    /\ page' = p
    /\ ThemeDocumentLoad
    /\ RsaReset
    /\ HashReset

\* Inputs of the site-wide specification: one key size, a message below
\* its modulus and one above, one ciphertext edit, one text to hash (and
\* none), one algorithm
SiteKeySizes == {8}

SiteMessages == { <<65>>, <<65, 66>> }

SiteCipherEdits == { <<49, 50>> }

SiteHashInputs == { << >>, <<65>> }

SiteAlgoSelections == { <<"MD5">> }

Init == page \in Pages /\ ThemeInit /\ RsaQuiet /\ HashInit

Next ==
    \/ \E loading \in BOOLEAN : ThemeScriptRun(loading)
    \/ ThemeDomReady
    \/ ToggleTheme
    \/ SystemChange
    \/ \E p \in Pages : Navigate(p)
    \/ \E keySize \in SiteKeySizes : HandleGenerateKeys(keySize)
    \/ UpdateProgress("Complete")
    \/ \E keys \in UNION { KeyPairsOf[k] : k \in SiteKeySizes } : GenerateKeysResolved(keys)
    \/ GenerateKeysRejected
    \/ \E input \in SiteMessages : HandleEncrypt(input)
    \/ HandleDecrypt
    \/ \E text \in SiteCipherEdits : EditCiphertext(text)
    \/ \E input \in SiteHashInputs, selectedAlgos \in SiteAlgoSelections :
          HandleComputeHash(input, selectedAlgos)
    \/ \E i \in 1..MaxInFlight : ComputeHashResolved(i)
    \/ \E i \in 1..MaxInFlight : ComputeHashRejected(i)

Spec == Init /\ [][Next]_vars

\* ------------------------------------------------------ dark mode: claims

LastTheme == themeHist[Len(themeHist)]

PrevTheme == themeHist[Len(themeHist) - 1]

SavedTheme == GetItem(localStorage, "theme")

\* C6 (as claimed): while the user has never used the manual toggle, every
\* system colour-scheme change seen by the registered listener switches
\* data-theme to the new system value; once the user has toggled, a system
\* change leaves data-theme unchanged.
C6_SystemChangeFollowedUntilToggled ==
    [][(sysDark' # sysDark /\ themePc # "unloaded") =>
          IF lastToggled = Null
          THEN dataTheme' = Some(SystemTheme(sysDark'))
          ELSE dataTheme' = dataTheme]_vars

\* C7: initTheme applies the saved 'theme' value when localStorage holds one
\* and otherwise 'dark' or 'light' after the system preference.
C7_InitThemeSavedFirst ==
    (themeHist # << >> /\ LastTheme.op = "initTheme") =>
        dataTheme = IF LastTheme.saved # Null
                    THEN LastTheme.saved
                    ELSE Some(SystemTheme(LastTheme.dark))

\* C7 witness: a page load with 'light' saved while the system prefers dark.
C7_Witness ==
    /\ themeHist # << >>
    /\ LastTheme.op = "initTheme"
    /\ LastTheme.saved = Some("light")
    /\ LastTheme.dark
    /\ dataTheme = Some("light")

\* C8: once toggleTheme has run, localStorage 'theme' equals the theme it
\* applied, and every loaded page shows that theme whatever the system prefers.
C8_ToggleSavedAndSurvivesReload ==
    lastToggled # Null =>
        /\ SavedTheme = lastToggled
        /\ (themePc = "ready" => dataTheme = lastToggled)

\* C8 witness: dark was toggled on, the page was reloaded under a light
\* system preference and initTheme applied dark again.
C8_Witness ==
    /\ lastToggled = Some("dark")
    /\ Len(themeHist) >= 2
    /\ PrevTheme.op = "reload"
    /\ LastTheme.op = "initTheme"
    /\ ~sysDark
    /\ dataTheme = Some("dark")

\* C9: toggleTheme applies light from dark and dark from light or unset; two
\* consecutive toggles from an applied theme restore data-theme and the saved
\* 'theme'.
C9_ToggleSwitchesAndIsInvolutive ==
    /\ (themeHist # << >> /\ LastTheme.op = "toggleTheme") =>
          dataTheme = Some(IF LastTheme.data = Some("dark") THEN "light" ELSE "dark")
    /\ (/\ Len(themeHist) >= 2
        /\ LastTheme.op = "toggleTheme"
        /\ PrevTheme.op = "toggleTheme"
        /\ PrevTheme.data \in {Some("light"), Some("dark")}) =>
          /\ dataTheme = PrevTheme.data
          /\ SavedTheme = PrevTheme.saved

\* C9 witness: two toggles in a row starting from an applied light theme.
C9_Witness ==
    /\ Len(themeHist) >= 2
    /\ LastTheme.op = "toggleTheme"
    /\ PrevTheme.op = "toggleTheme"
    /\ PrevTheme.data = Some("light")
    /\ dataTheme = Some("light")
    /\ SavedTheme = Some("light")

\* ------------------------------------------------------ RSA tool: claims

EncShown == encryptionResults[1]

DecShown == decryptionResults[1]

\* The last step was a handleDecrypt that decrypted, under the keys of the
\* encryption on display, the ciphertext that encryption put in the input.
RoundTripDone ==
    /\ rsaLast.op = "handleDecrypt"
    /\ rsaLast.error = ""
    /\ currentKeys # Null
    /\ encryptionResults # Null
    /\ decryptionResults # Null
    /\ currentKeys[1].publicKey = EncShown.publicKey
    /\ lastCiphertext = ParseBigInt(EncShown.ciphertext)
    /\ ciphertextInput = EncShown.ciphertext
    /\ DecShown.ciphertext = EncShown.ciphertext

C1_RoundTrip ==
    (RoundTripDone /\ EncShown.originalMessage[1] # 0) =>
        DecShown.plaintextStr = EncShown.originalMessage

\* C1 witness: "AB" encrypted and decrypted back under the 16-bit key.
C1_Witness ==
    /\ RoundTripDone
    /\ EncShown.originalMessage = <<65, 66>>
    /\ DecShown.plaintextStr = <<65, 66>>
    /\ EncShown.ciphertext # EncShown.messageInt

RsaHandlers == {"handleEncrypt", "handleDecrypt"}

\* C2: RSACore.encrypt and RSACore.decrypt are called only with currentKeys
\* set; handleEncrypt or handleDecrypt run while currentKeys is null reports
\* 'Please generate keys first!', calls neither, and leaves currentKeys,
\* lastCiphertext, the three result areas and both buttons as they were.
C2_NoCoreCallWithoutKeys ==
    /\ [](rsaLast.core \in {"encrypt", "decrypt"} => currentKeys # Null)
    /\ [][(currentKeys = Null /\ rsaLast'.op \in RsaHandlers) =>
             /\ rsaLast'.error = "Please generate keys first!"
             /\ rsaLast'.core = "none"
             /\ UNCHANGED <<currentKeys, lastCiphertext, keyGenResults, encryptionResults,
                            decryptionResults, encryptBtnDisabled, decryptBtnDisabled>>]_vars

\* C2 witness: handleDecrypt has run without keys and reported it.
C2_Witness ==
    /\ currentKeys = Null
    /\ rsaLast.op = "handleDecrypt"
    /\ rsaLast.error = "Please generate keys first!"

\* C3: the encrypt button becomes enabled only in the step in which
\* handleGenerateKeys completes with keys (currentKeys assigned), the decrypt
\* button only in the step in which handleEncrypt completes with a
\* ciphertext (lastCiphertext assigned); a step that reports an error
\* changes neither button.
C3_ButtonsEnabledInOrder ==
    [][/\ (encryptBtnDisabled /\ ~encryptBtnDisabled') =>
              /\ rsaLast'.op = "generateKeysResolved"
              /\ currentKeys' # Null
              /\ keyGenResults' = currentKeys'
       /\ (decryptBtnDisabled /\ ~decryptBtnDisabled') =>
              /\ rsaLast'.op = "handleEncrypt"
              /\ rsaLast'.error = ""
              /\ lastCiphertext' # Null
              /\ currentKeys # Null
       /\ rsaLast'.error # "" =>
              UNCHANGED <<encryptBtnDisabled, decryptBtnDisabled>>]_vars

\* C3 witness: on a page whose markup disables both buttons, keys were
\* generated and a message encrypted, and both buttons are enabled.
C3_Witness ==
    /\ markupDisabled
    /\ ~encryptBtnDisabled
    /\ ~decryptBtnDisabled
    /\ rsaLast.op = "handleEncrypt"
    /\ rsaLast.core = "encrypt"

\* C4: RSACore.encrypt is never handed an integer that is not below the
\* modulus; a handleEncrypt whose encoded message is at or above n reports
\* 'Message too large!', encrypts nothing, and leaves lastCiphertext, the
\* ciphertext input, the encryption results and the decrypt button alone.
C4_NeverEncryptsAtOrAboveModulus ==
    /\ [](rsaLast.core = "encrypt" => rsaLast.value[1] < currentKeys[1].publicKey.n)
    /\ [][(/\ rsaLast'.op = "handleEncrypt"
           /\ rsaLast'.value # Null
           /\ rsaLast'.value[1] >= currentKeys[1].publicKey.n) =>
             /\ rsaLast'.error = "Message too large!"
             /\ rsaLast'.core = "none"
             /\ UNCHANGED <<lastCiphertext, ciphertextInput, encryptionResults,
                            decryptBtnDisabled>>]_vars

\* C4 witness: a message too large for the 8-bit key was refused on a page
\* that disables the decrypt button, and the button is still disabled.
C4_Witness ==
    /\ rsaLast.op = "handleEncrypt"
    /\ rsaLast.error = "Message too large!"
    /\ rsaLast.value[1] >= currentKeys[1].publicKey.n
    /\ decryptBtnDisabled
    /\ lastCiphertext = Null

\* ----------------------------------------------------- hash tool: claims

\* C10: a handleComputeHash whose input is empty reports 'Please enter text
\* to hash', one whose input is not empty but whose selection is reports
\* 'Please select at least one hash algorithm'; either calls no
\* HashCore.computeHash, starts nothing, and leaves the results, the loading
\* indicator, currentHashes and lastInput as they were.
C10_ComputeHashValidates ==
    [][(/\ hashLast'.op = "handleComputeHash"
        /\ (hashLast'.input = << >> \/ hashLast'.algos = << >>)) =>
          /\ hashLast'.error = IF hashLast'.input = << >>
                               THEN "Please enter text to hash"
                               ELSE "Please select at least one hash algorithm"
          /\ hashLast'.core = "none"
          /\ UNCHANGED <<hashInv, hashResults, hashLoading, currentHashes, lastInput>>]_vars

\* C10 witness: with results of "A" on display, a click with input "B" and
\* no algorithm selected was refused, and the results are still there.
C10_Witness ==
    /\ hashLast.op = "handleComputeHash"
    /\ hashLast.error = "Please select at least one hash algorithm"
    /\ hashLast.input = <<66>>
    /\ lastInput = <<65>>
    /\ hashResults # Null
    /\ DOMAIN currentHashes = {"MD5", "SHA-256"}

\* ---------------------------------------------------------- site: claims

\* C5: whatever the three controllers have done, on either page and across
\* page loads, localStorage holds no entry but 'theme', whose value is a
\* theme name: neither currentKeys nor lastCiphertext is ever in it.
C5_OnlyThemePersisted ==
    /\ DOMAIN localStorage \subseteq {"theme"}
    /\ \A key \in DOMAIN localStorage : localStorage[key] \in {"light", "dark"}

\* C5 witness: keys were generated and a message encrypted on the RSA page
\* while the theme script had saved its entry.
C5_Witness ==
    /\ page = "rsa"
    /\ currentKeys # Null
    /\ lastCiphertext # Null
    /\ DOMAIN localStorage = {"theme"}

\* C5, after a page load: the script's state is gone and the saved theme is
\* still there.
C5_WitnessReloaded ==
    /\ themeHist # << >>
    /\ LastTheme.op = "reload"
    /\ currentKeys = Null
    /\ lastCiphertext = Null
    /\ DOMAIN localStorage = {"theme"}

\* The set of the elements of a sequence
Range(seq) == { seq[k] : k \in 1..Len(seq) }

\* C11: when a handleComputeHash invocation has completed successfully,
\* lastInput is the input it read and currentHashes has one entry for each
\* algorithm it had selected and no other, each holding the hash
\* HashCore.computeHash gives for that input and that algorithm.
C11_ResultsPerAlgorithm ==
    hashLast.op = "computeHashCompleted" =>
        /\ lastInput = hashLast.input
        /\ DOMAIN currentHashes = Range(hashLast.algos)
        /\ \A algo \in DOMAIN currentHashes :
              currentHashes[algo].hash = Digest(hashLast.input, algo)

\* C11 witness: "A" was hashed with both algorithms, and the two entries
\* differ.
C11_Witness ==
    /\ hashLast.op = "computeHashCompleted"
    /\ hashLast.input = <<65>>
    /\ hashLast.algos = <<"MD5", "SHA-256">>
    /\ DOMAIN currentHashes = {"MD5", "SHA-256"}
    /\ currentHashes["MD5"] # currentHashes["SHA-256"]

\* ----------------------------------------------------- avalanche: claims

\* The modified input is the base input with exactly one bit of its last
\* character changed, and that character is not DEL.
OneBitFromBase(base, modified) ==
    /\ Len(modified) = Len(base)
    /\ \A k \in 1..(Len(base) - 1) : modified[k] = base[k]
    /\ DiffBits(base[Len(base)], modified[Len(modified)]) = 1
    /\ modified[Len(modified)] # 127

\* C12: every modified input handleAvalanche has built, on display or held
\* by an invocation awaiting its second hash, has the length of its base
\* input, the same characters but for the last, a last character that
\* differs from the base's in one and only one bit, and that is not DEL.
C12_ModifiedInputOneBitNoDel ==
    /\ \A i \in 1..Len(avInv) :
          avInv[i].modifiedInput # Null =>
              OneBitFromBase(avInv[i].baseInput, avInv[i].modifiedInput[1])
    /\ avalancheResults # Null =>
          OneBitFromBase(avalancheResults[1].original, avalancheResults[1].modified)

\* C12 witness: the avalanche of "A~" is on display, its modified input
\* being "A|".
C12_Witness ==
    /\ avalancheResults # Null
    /\ avalancheResults[1].original = <<65, 126>>
    /\ avalancheResults[1].modified = <<65, 124>>

\* ------------------------------------------- hash tool: order of the calls

\* The first n elements of a sequence, as a set
FirstOf(seq, n) == { seq[k] : k \in 1..n }

\* C13: an invocation of handleComputeHash awaits one computeHash at a
\* time, that of its next algorithm in selection order, every earlier
\* algorithm having resolved and no later one having been computed; a
\* resolved call is followed by the call for the next algorithm only, and a
\* rejected call ends the invocation without another call.
C13_HashCallsSequential ==
    /\ [](\A i \in 1..Len(hashInv) :
            /\ hashInv[i].next \in 1..Len(hashInv[i].algos)
            /\ DOMAIN hashInv[i].results = FirstOf(hashInv[i].algos, hashInv[i].next - 1))
    /\ [][/\ hashLast'.op = "computeHashRejected" =>
               /\ hashLast'.core = "none"
               /\ Len(hashInv') = Len(hashInv) - 1
               /\ UNCHANGED <<currentHashes, lastInput, hashResults>>
          /\ hashLast'.op = "computeHashResolved" =>
               /\ Len(hashInv') = Len(hashInv)
               /\ \E i \in 1..Len(hashInv) :
                     /\ hashInv'[i].next = hashInv[i].next + 1
                     /\ \A j \in 1..Len(hashInv) : j # i => hashInv'[j] = hashInv[j]]_vars

\* C13 witness: an invocation with two algorithms selected has its first
\* hash and awaits the second.
C13_Witness ==
    /\ hashLast.op = "computeHashResolved"
    /\ \E i \in 1..Len(hashInv) :
          /\ hashInv[i].algos = <<"MD5", "SHA-256">>
          /\ hashInv[i].next = 2
          /\ DOMAIN hashInv[i].results = {"MD5"}

\* C13, the rejection: the second call of an invocation was rejected, and
\* nothing of the invocation is left.
C13_WitnessRejected ==
    /\ hashLast.op = "computeHashRejected"
    /\ hashLast.algos = <<"MD5", "SHA-256">>
    /\ hashInv = << >>
    /\ currentHashes = EmptyObject

\* ------------------------------------------------- loading states: claims

GenerateIdle ==
    /\ generateBtn = [disabled |-> FALSE, text |-> "Generate RSA Keys"]
    /\ keyGenProgress = "hidden"

\* C14: the awaited operations settling, a loading indicator shown in
\* #hash-results or in #avalanche-results is hidden in the end, and a
\* generate button in its loading state is in the end reset to 'Generate
\* RSA Keys' with the progress indicator hidden; the step in which an
\* invocation ends, by success or by failure, is one that hides it.
C14_LoadingEventuallyRemoved ==
    /\ hashLoading ~> ~hashLoading
    /\ avalancheLoading ~> ~avalancheLoading
    /\ (generateBtn.disabled \/ keyGenProgress # "hidden") ~> GenerateIdle
    /\ [](hashInv # << >> ~> hashLast.op \in {"computeHashCompleted", "computeHashRejected"})
    /\ [][/\ Len(hashInv') < Len(hashInv) => ~hashLoading'
          /\ Len(avInv') < Len(avInv) => ~avalancheLoading'
          /\ (genPending # Null /\ genPending' = Null) => GenerateIdle']_vars

\* C14 witness: on the hash page a computeHash rejection has ended an
\* invocation of handleComputeHash and an avalanche has completed, and
\* neither area shows its loading indicator.
C14_Witness ==
    /\ hashLast.op = "computeHashRejected"
    /\ hashInv = << >>
    /\ ~hashLoading
    /\ avLast.op = "avalancheCompleted"
    /\ avInv = << >>
    /\ ~avalancheLoading

\* C14, key generation: a rejected generateKeyPair has left the button
\* reset and the progress hidden.
C14_WitnessGenerate ==
    /\ rsaLast.op = "generateKeysRejected"
    /\ GenerateIdle

\* ------------------------------------------ hash tool: overlapping clicks

\* C15: when the second of two overlapping handleComputeHash invocations
\* has completed, both having succeeded, lastInput, currentHashes and the
\* results on display are those of the one that was started last.
C15_LatestInvocationWins ==
    hashRace # Null =>
        LET newest == hashRace[1]
        IN  /\ lastInput = newest.input
            /\ DOMAIN currentHashes = Range(newest.algos)
            /\ \A algo \in DOMAIN currentHashes :
                  currentHashes[algo].hash = Digest(newest.input, algo)
            /\ hashResults = Some([input |-> newest.input, results |-> currentHashes])

\* ------------------------------------------------------- birthday: claims

\* The band the claim gives a probability, by its two bounds
ClaimedBand(p) ==
    { band \in { [name |-> "Effectively Impossible", rank |-> 1, from |-> 0, below |-> 10],
                 [name |-> "Highly Secure", rank |-> 2, from |-> 10, below |-> 100000],
                 [name |-> "Possible with Resources", rank |-> 3, from |-> 100000,
                  below |-> 100000000],
                 [name |-> "Practical Attack", rank |-> 4, from |-> 100000000,
                  below |-> 1000000001] } :
        band.from <= p /\ p < band.below }

\* C16: every probability in the table on display has the one band its
\* value falls in: 'Effectively Impossible' below 0.000001 %, 'Highly
\* Secure' from there to below 0.01 %, 'Possible with Resources' from there
\* to below 10 %, 'Practical Attack' from 10 %; and of two probabilities of
\* a table, the larger never has the more secure band.
C16_BirthdayBands ==
    birthdayResults # Null =>
        LET rows == birthdayResults[1].probabilities
        IN  /\ \A k \in DOMAIN rows :
                  /\ Cardinality(ClaimedBand(rows[k].probability)) = 1
                  /\ \E band \in ClaimedBand(rows[k].probability) :
                        rows[k].assessment = band.name
            /\ \A k, l \in DOMAIN rows :
                  rows[k].probability <= rows[l].probability =>
                      \A bk \in ClaimedBand(rows[k].probability),
                         bl \in ClaimedBand(rows[l].probability) : bk.rank <= bl.rank

\* C16 witness: a table whose four probabilities are the three thresholds
\* and the value just below the first, with the four bands in order.
C16_Witness ==
    /\ birthdayResults # Null
    /\ birthdayResults[1].probabilities[1].probability = 9
    /\ birthdayResults[1].probabilities[1].assessment = "Effectively Impossible"
    /\ birthdayResults[1].probabilities[2].probability = 10
    /\ birthdayResults[1].probabilities[2].assessment = "Highly Secure"
    /\ birthdayResults[1].probabilities[3].probability = 100000
    /\ birthdayResults[1].probabilities[3].assessment = "Possible with Resources"
    /\ birthdayResults[1].probabilities[4].probability = 100000000
    /\ birthdayResults[1].probabilities[4].assessment = "Practical Attack"

====
